---- MODULE Spec2Model ----
(***************************************************************************)
(* Model of the Cannon Hill shipping bridge (src/index.js).                *)
(*                                                                         *)
(* src/index.js holds three variants of the same program, one after the    *)
(* other: lines 1-260 (variant 1), lines 261-470 (variant 2) and lines     *)
(* 471-651 (variant 3).  The variable `variant' says which one is running; *)
(* every operator that differs between the variants takes it as `v'.       *)
(*                                                                         *)
(* Strings that the code takes apart (the CSV cells) are sequences of      *)
(* atoms: an atom is one character ("1", "/", " ") or one word that the    *)
(* code never looks inside ("UPS", "RTSCS").  Strings that the code only   *)
(* copies (HTTP bodies, messages) are plain TLA+ strings.                  *)
(***************************************************************************)
EXTENDS Integers, Sequences, FiniteSets, TLC

VARIABLES
    variant,        \* which variant of src/index.js is running (1, 2, 3)
    caller,         \* "http": the route handler; "direct": a direct call of postToSubmitRoute; "format": a direct call of formatCannonHillData
    pc,             \* where the request / call stands
    hasFile,        \* req.file is set
    results,        \* the rows parseCSVFromBuffer resolved with (the argument of formatCannonHillData)
    formattedData,  \* the records formatCannonHillData returned (the argument of postToSubmitRoute)
    uniqueOrderIds, \* the final content of formatCannonHillData's local Set
    retries,        \* postToSubmitRoute's retries argument
    attempt,        \* the loop counter of postToSubmitRoute
    posts,          \* payloads POSTed to the submit route so far, in order
    waits,          \* setTimeout delays (ms) awaited so far, in order
    lastError,      \* the error of the most recent failed attempt
    call,           \* how postToSubmitRoute ended: none / returned / raised
    steps,          \* the steps of the handler that have run: "parse", "format", "submit"
    failedStep,     \* the step whose failure reached the handler's catch, or "none"
    responses,      \* HTTP responses sent to the uploader, in order
    answer,         \* what the most recent fetch of the call settled with
    inflight        \* the uploads of a server handling several at once: request id -> its state

vars == <<variant, caller, pc, hasFile, results, formattedData, uniqueOrderIds,
          retries, attempt, posts, waits, lastError, call, steps, failedStep,
          responses, answer, inflight>>

----------------------------------------------------------------------------
(* Bounds *)

MaxPoLen == 3

MaxRows == 3

MaxRetries == 4

Variants == {1, 2, 3}

----------------------------------------------------------------------------
(* JavaScript values and string primitives *)

\* The value `undefined' of a cell that the row does not have.
Undefined == <<"<undefined>">>

\* The function found on Object.prototype under the key "constructor".
ObjectFunction == <<"<function Object>">>

Digits == {"0", "1", "2", "3", "4", "5", "6", "7", "8", "9"}

Whitespace == {" "}

\* JavaScript truthiness of a string-or-undefined value.
Truthy(x) == x # <<>> /\ x # Undefined

\* a || b
OrElse(a, b) == IF Truthy(a) THEN a ELSE b

\* `${x}` in a template literal.
ToStr(x) ==
    IF x = Undefined THEN <<"undefined">>
    ELSE IF x = ObjectFunction THEN <<"function Object() { [native code] }">>
    ELSE x

RECURSIVE TrimStart(_)
TrimStart(s) ==
    IF s # <<>> /\ Head(s) \in Whitespace THEN TrimStart(Tail(s)) ELSE s

RECURSIVE TrimEnd(_)
TrimEnd(s) ==
    IF s # <<>> /\ s[Len(s)] \in Whitespace
    THEN TrimEnd(SubSeq(s, 1, Len(s) - 1))
    ELSE s

\* String.prototype.trim
Trim(s) == TrimEnd(TrimStart(s))

\* Index of the first atom of s that is in set C, or 0.
FirstIn(s, C) ==
    IF \E i \in 1..Len(s) : s[i] \in C
    THEN CHOOSE i \in 1..Len(s) : s[i] \in C /\ \A j \in 1..(i - 1) : s[j] \notin C
    ELSE 0

\* String.prototype.split(c) with a one-character string separator.
RECURSIVE SplitOn(_, _)
SplitOn(s, c) ==
    LET i == FirstIn(s, {c})
    IN  IF i = 0 THEN <<s>>
        ELSE <<SubSeq(s, 1, i - 1)>> \o SplitOn(SubSeq(s, i + 1, Len(s)), c)

\* s without its leading atoms that are in C.
RECURSIVE DropWhileIn(_, _)
DropWhileIn(s, C) ==
    IF s # <<>> /\ Head(s) \in C THEN DropWhileIn(Tail(s), C) ELSE s

\* String.prototype.split(/[C]+/): separators are maximal runs of atoms of C.
RECURSIVE SplitRuns(_, _)
SplitRuns(s, C) ==
    LET i == FirstIn(s, C)
    IN  IF i = 0 THEN <<s>>
        ELSE <<SubSeq(s, 1, i - 1)>>
             \o SplitRuns(DropWhileIn(SubSeq(s, i, Len(s)), C), C)

\* s.replace(/\D/g, '')
RECURSIVE StripNonDigits(_)
StripNonDigits(s) ==
    IF s = <<>> THEN <<>>
    ELSE IF Head(s) \in Digits THEN <<Head(s)>> \o StripNonDigits(Tail(s))
    ELSE StripNonDigits(Tail(s))

\* /^\d+$/.test(part)
AllDigits(part) == part # <<>> /\ \A i \in 1..Len(part) : part[i] \in Digits

\* Array.prototype.find: the first element satisfying AllDigits, or undefined.
FindAllDigits(parts) ==
    IF \E i \in 1..Len(parts) : AllDigits(parts[i])
    THEN parts[CHOOSE i \in 1..Len(parts) :
                   AllDigits(parts[i]) /\ \A j \in 1..(i - 1) : ~AllDigits(parts[j])]
    ELSE Undefined

\* Property lookup obj[key] on an object literal: own keys first, then the
\* keys every object inherits from Object.prototype.
ObjectPrototype == (<<"constructor">> :> ObjectFunction)

Lookup(obj, key) ==
    LET k == ToStr(key)
    IN  IF k \in DOMAIN obj THEN obj[k]
        ELSE IF k \in DOMAIN ObjectPrototype THEN ObjectPrototype[k]
        ELSE Undefined

----------------------------------------------------------------------------
(* formatCannonHillData *)

shipmentMethodMap ==
    (<<"G">> :> <<"Ground">>) @@ (<<"3RD">> :> <<"3 Day Select">>)
    @@ (<<"2ND">> :> <<"2nd Day Air">>)

storeIdMap ==
    (<<"RTSCS">> :> <<"68125">>) @@ (<<"RTFMS">> :> <<"118741">>)
    @@ (<<"HERO">> :> <<"14077">>)

\* Variant 1: the first all-digit token after splitting on runs of "/",
\* whitespace and "-"; `?.trim()' leaves undefined as it is.
sanitizeFirstNumeric(po) ==
    LET found == FindAllDigits(SplitRuns(po, {"/", "-"} \cup Whitespace))
    IN  IF found = Undefined THEN Undefined ELSE Trim(found)

\* Variants 2 and 3: the digits of the segment before the first "/".
sanitizeStripKeepsAll(po) == Trim(Head(SplitOn(po, "/")))

sanitizeStrip(po) == Trim(StripNonDigits(Head(SplitOn(po, "/"))))

sanitizedValue(v, po) ==
    IF v = 1 THEN sanitizeFirstNumeric(po) ELSE sanitizeStrip(po)

\* let [carrier_code = "", shipment_method = ""] =
\*     (item.Shipped_VIA || "").split('-').map((part) => part.trim());
shippedViaParts(via) ==
    LET parts == SplitOn(OrElse(via, <<>>), "-")
        trimmed == [i \in 1..Len(parts) |-> Trim(parts[i])]
    IN  [carrier_code |-> trimmed[1],
         shipment_method |-> IF Len(trimmed) >= 2 THEN trimmed[2] ELSE <<>>]

\* shipment_method = shipmentMethodMap[shipment_method] || shipment_method;
\* ... shipment_method: shipment_method || "Residential"
shipmentMethod(code) ==
    OrElse(OrElse(Lookup(shipmentMethodMap, code), code), <<"Residential">>)

\* storeIdMap[item.Customer_Number] || item.Customer_Number
mappedStoreId(cust) == OrElse(Lookup(storeIdMap, cust), cust)

\* The record pushed for one row.
shipmentRecord(item, order) ==
    LET via == shippedViaParts(item.Shipped_VIA)
    IN  [source_id |-> ToStr(mappedStoreId(item.Customer_Number)) \o <<"-">> \o order,
         tracking_number |-> item.Tracking_Number,
         carrier_code |-> via.carrier_code,
         shipment_method |-> shipmentMethod(via.shipment_method)]

\* One call of the reducer: acc is [formattedData, uniqueOrderIds].
reduceRowForgetsSeen(v, acc, item) ==
    IF Truthy(item.Cust_PO_Number)
    THEN LET order == sanitizedValue(v, item.Cust_PO_Number)
         IN  IF Truthy(order) /\ order \notin acc.uniqueOrderIds
             THEN [formattedData |-> Append(acc.formattedData, shipmentRecord(item, order)),
                   uniqueOrderIds |-> acc.uniqueOrderIds]
             ELSE acc
    ELSE acc

reduceRow(v, acc, item) ==
    IF Truthy(item.Cust_PO_Number)
    THEN LET order == sanitizedValue(v, item.Cust_PO_Number)
         IN  IF Truthy(order) /\ order \notin acc.uniqueOrderIds
             THEN [formattedData |-> Append(acc.formattedData, shipmentRecord(item, order)),
                   uniqueOrderIds |-> acc.uniqueOrderIds \cup {order}]
             ELSE acc
    ELSE acc

\* results.reduce(reducer, []) with a fresh Set.
RECURSIVE reduceFrom(_, _, _, _)
reduceFrom(v, acc, rows, i) ==
    IF i > Len(rows) THEN acc
    ELSE reduceFrom(v, reduceRow(v, acc, rows[i]), rows, i + 1)

formatCannonHillData(v, rows) ==
    reduceFrom(v, [formattedData |-> <<>>, uniqueOrderIds |-> {}], rows, 1)

----------------------------------------------------------------------------
(* Errors, JSON and the error envelope *)

\* An Error object: its message is a string, held as a tuple of pieces.
Err(name, message) == [name |-> name, message |-> message]

NoError == Err("", <<>>)

ValidationError == Err("Error", <<"No valid data to send to submit route">>)

FetchError == Err("FetchError", <<"request to submit route failed">>)

SyntaxError == Err("SyntaxError", <<"Unexpected token in JSON">>)

TypeError == Err("TypeError", <<"Cannot read properties of null">>)

ParseError == Err("Error", <<"csv stream error">>)

\* JavaScript values that reach the envelope: a string or a {status, response} object.
Str(s) == [t |-> "string", s |-> s, status |-> 0, response |-> ""]

Obj(status, response) == [t |-> "object", s |-> "", status |-> status, response |-> response]

\* JSON.stringify({ status: response.status, response: rawResponse })
JSONstringify(status, response) ==
    <<"{\"status\":", status, ",\"response\":", response, "}">>

\* JSON.parse of an error message: the text of a {status, response} object
\* parses to that object, any other message of the model is not JSON.
JSONparse(message) ==
    IF Len(message) = 5 /\ message[1] = "{\"status\":" /\ message[3] = ",\"response\":"
       /\ message[5] = "}"
    THEN [ok |-> TRUE, value |-> Obj(message[2], message[4])]
    ELSE [ok |-> FALSE, value |-> Str("")]

\* parsedError.response || parsedError.stack || parsedError
envelopeResponse(parsedError) ==
    IF parsedError.t = "object" /\ parsedError.response # ""
    THEN Str(parsedError.response)
    ELSE parsedError

EnvelopeMessage == "An error occurred while processing the request"

NoResult ==
    [defined |-> FALSE, status |-> "", message |-> "", execution_time |-> "",
     results |-> <<>>]

\* What response.status(code).json(body) sends; the fields a body lacks are blank.
HttpResponse(code, shape, message, error, result) ==
    [code |-> code, shape |-> shape, message |-> message, error |-> error,
     result |-> result]

NoEnvelopeError == [status |-> 0, response |-> Str("")]

handleErrorUsesRemoteStatus(error, statusCode) ==
    LET parsed == JSONparse(error.message)
        parsedError == IF parsed.ok THEN parsed.value ELSE Str(error.message[1])
        code == IF parsedError.t = "object" THEN parsedError.status ELSE statusCode
    IN  HttpResponse(code, "envelope", EnvelopeMessage,
                     [status |-> code, response |-> envelopeResponse(parsedError)],
                     NoResult)

handleError(error, statusCode) ==
    LET parsed == JSONparse(error.message)
        parsedError == IF parsed.ok THEN parsed.value ELSE Str(error.message[1])
    IN  HttpResponse(statusCode, "envelope", EnvelopeMessage,
                     [status |-> statusCode, response |-> envelopeResponse(parsedError)],
                     NoResult)

DefaultStatusCode == 500

NoFileResponse ==
    HttpResponse(400, "message", "No file attached.", NoEnvelopeError, NoResult)

OkResponse(result) == HttpResponse(200, "result", "", NoEnvelopeError, result)

----------------------------------------------------------------------------
(* The submit route's answers and simplifyPostResponses *)

\* A field that a JSON object does not have.
Missing == "<undefined>"

OrDefault(x, d) == IF x = Missing \/ x = "" THEN d ELSE x

Element(hasPostResponse, status, message, error) ==
    [hasPostResponse |-> hasPostResponse, status |-> status, message |-> message,
     error |-> error]

EmptyObjectBody == "{}"

ResultsBody ==
    "{\"status\":\"ok\",\"results\":[{\"postResponse\":{\"status\":\"success\",\"message\":\"shipped\"}},{\"error\":\"bad id\"},{}]}"

Bodies == {"", "oops", "null", EmptyObjectBody, ResultsBody}

JsonObject(isNull, status, message, execution_time, list) ==
    [isNull |-> isNull, status |-> status, message |-> message,
     execution_time |-> execution_time, results |-> list]

\* JSON.parse(rawResponse) / response.json() on the bodies of the model.
JSONparseBody(body) ==
    IF body = "null"
    THEN [ok |-> TRUE, value |-> JsonObject(TRUE, Missing, Missing, Missing, <<>>)]
    ELSE IF body = EmptyObjectBody
    THEN [ok |-> TRUE, value |-> JsonObject(FALSE, Missing, Missing, Missing, <<>>)]
    ELSE IF body = ResultsBody
    THEN [ok |-> TRUE,
          value |-> JsonObject(FALSE, "ok", Missing, Missing,
                       <<Element(TRUE, "success", "shipped", Missing),
                         Element(FALSE, Missing, Missing, "bad id"),
                         Element(FALSE, Missing, Missing, Missing)>>)]
    ELSE [ok |-> FALSE, value |-> JsonObject(TRUE, Missing, Missing, Missing, <<>>)]

simplifyOne(v, e) ==
    IF v = 1 /\ e.error # Missing /\ e.error # ""
    THEN [status |-> "error", message |-> e.error]
    ELSE [status |-> OrDefault(e.status, "unknown"),
          message |-> OrDefault(e.message, "No message provided")]

simplifyPostResponses(v, postResponses) ==
    IF v = 1 /\ postResponses = <<>>
    THEN <<[status |-> "error", message |-> "No valid responses received"]>>
    ELSE [i \in 1..Len(postResponses) |-> simplifyOne(v, postResponses[i])]

\* The object postToSubmitRoute returns on success.
submissionResult(v, jsonResponse) ==
    [defined |-> TRUE,
     status |-> OrDefault(jsonResponse.status, "success"),
     message |-> OrDefault(jsonResponse.message, "No message provided"),
     execution_time |-> OrDefault(jsonResponse.execution_time, "N/A"),
     results |-> simplifyPostResponses(v, jsonResponse.results)]

Statuses == {200, 404, 503}

\* What `await fetch(...)' settles with: a rejection, or a response.
FetchOutcomes ==
    {[kind |-> "transport", status |-> 0, body |-> ""]}
    \cup {[kind |-> "response", status |-> s, body |-> b] : s \in Statuses, b \in Bodies}

\* No fetch has settled yet.
NoAnswer == [kind |-> "none", status |-> 0, body |-> ""]

ResponseOk(status) == status \in 200..299

Returned(value) == [state |-> "returned", value |-> value, error |-> NoError]

Raised(error) == [state |-> "raised", value |-> NoResult, error |-> error]

NotCalled == [state |-> "none", value |-> NoResult, error |-> NoError]

\* The body of the try block (variants 1, 2) or of the function (variant 3)
\* once fetch has settled with outcome o.
attemptOutcome(v, o) ==
    IF o.kind = "transport" THEN Raised(FetchError)
    ELSE IF ~ResponseOk(o.status)
    THEN Raised(Err("Error", JSONstringify(o.status, o.body)))
    ELSE LET parsed == JSONparseBody(o.body)
         IN  IF ~parsed.ok THEN Raised(SyntaxError)
             ELSE IF parsed.value.isNull THEN Raised(TypeError)
             ELSE Returned(submissionResult(v, parsed.value))

DefaultRetries == 3

RetryDelayExponential(n) == 2 ^ (n - 1) * 1000

\* setTimeout(resolve, attempt * 1000)
RetryDelay(n) == n * 1000

----------------------------------------------------------------------------
(* Inputs *)

Row(po, via, cust, trk) ==
    [Cust_PO_Number |-> po, Shipped_VIA |-> via, Customer_Number |-> cust,
     Tracking_Number |-> trk]

PoAlphabet == {"1", "2", "/", "-", " ", "A"}

PoStrings == UNION {[1..n -> PoAlphabet] : n \in 0..MaxPoLen}

ViaSamples ==
    {Undefined, <<>>,
     <<"UPS", " ", "-", " ", "G">>, <<"UPS", "-", "3RD">>, <<"UPS", " ", "-", "2ND">>,
     <<"UPS", "-", "X">>, <<"UPS">>, <<"UPS", "-", " ">>, <<"-", "G">>,
     <<" ", "FEDEX", "-", "G", "-", "X">>, <<"UPS", "-", "constructor">>}

CustSamples ==
    {Undefined, <<"RTSCS">>, <<"RTFMS">>, <<"HERO">>, <<"UNKNOWN1">>,
     <<"constructor">>}

\* One-row inputs of a direct call of formatCannonHillData.
FormatInputs ==
    {<<Row(po, via, cust, <<"1Z999">>)>> :
        po \in PoStrings \cup {Undefined}, via \in ViaSamples, cust \in CustSamples}

\* Rows of the uploads of the model.
SampleRows ==
    {Row(<<"1", "2", "/", "1">>, <<"UPS", " ", "-", " ", "G">>, <<"RTSCS">>, <<"1Z001">>),
     Row(<<"1", "2">>, <<"UPS", "-", "3RD">>, <<"RTFMS">>, <<"1Z002">>),
     Row(<<"1", "-", "2">>, <<>>, <<"UNKNOWN1">>, <<"1Z003">>),
     Row(<<"A">>, Undefined, <<"HERO">>, <<"1Z004">>),
     Row(<<>>, <<"UPS", "-", "X">>, <<"RTSCS">>, <<"1Z005">>)}

RowLists == UNION {[1..n -> SampleRows] : n \in 0..MaxRows}

\* Arguments of the direct calls of postToSubmitRoute.
DataSamples ==
    {<<>>,
     <<[source_id |-> <<"68125", "-", "1", "2">>, tracking_number |-> <<"1Z001">>,
        carrier_code |-> <<"UPS">>, shipment_method |-> <<"Ground">>]>>}

----------------------------------------------------------------------------
(* postToSubmitRoute *)

\* postToSubmitRoute has ended with c; the code awaiting it goes on: the
\* route handler answers 200 or runs its catch block.
Settle(c) ==
    /\ call' = c
    /\ pc' = "done"
    /\ IF caller = "http"
       THEN IF c.state = "raised"
            THEN /\ responses' = Append(responses, handleError(c.error, DefaultStatusCode))
                 /\ failedStep' = "submit"
            ELSE /\ responses' = Append(responses, OkResponse(c.value))
                 /\ failedStep' = failedStep
       ELSE UNCHANGED <<responses, failedStep>>

\* fetch(submitRoute, { method: 'POST', body: JSON.stringify(data) }) of attempt k.
Post(data, k) ==
    /\ posts' = Append(posts, data)
    /\ attempt' = k
    /\ pc' = "fetch"
    /\ UNCHANGED <<call, responses, failedStep>>

\* postToSubmitRoute(data, n) from its call to its first await (or its end).
Begin(data, n) ==
    IF variant = 1 /\ data = <<>>
    THEN Settle(Raised(ValidationError)) /\ UNCHANGED <<posts, attempt>>
    ELSE IF variant = 3 \/ 1 <= n
    THEN Post(data, 1)
    ELSE Settle(Returned(NoResult)) /\ UNCHANGED <<posts, attempt>>

\* fetch settles: the attempt returns the result, or its failure is caught
\* (variants 1, 2: rethrown on the last attempt, else followed by a wait;
\* variant 3: there is no loop, the failure leaves the function).
FetchSettles ==
    /\ pc = "fetch"
    /\ \E o \in FetchOutcomes :
          LET r == attemptOutcome(variant, o)
          IN  /\ answer' = o
              /\ IF r.state = "returned"
                 THEN Settle(r) /\ UNCHANGED <<lastError, waits>>
                 ELSE /\ lastError' = r.error
                      /\ IF variant = 3 \/ attempt = retries
                         THEN Settle(Raised(r.error)) /\ UNCHANGED waits
                         ELSE /\ pc' = "wait"
                              /\ waits' = Append(waits, RetryDelay(attempt))
                              /\ UNCHANGED <<call, responses, failedStep>>
    /\ UNCHANGED <<inflight, variant, caller, hasFile, results, formattedData,
                   uniqueOrderIds, retries, attempt, posts, steps>>

\* The timer of the wait fires: attempt++, the loop condition, the next POST.
TimerFires ==
    /\ pc = "wait"
    /\ IF attempt + 1 <= retries
       THEN Post(formattedData, attempt + 1)
       ELSE Settle(Returned(NoResult)) /\ attempt' = attempt + 1 /\ UNCHANGED posts
    /\ UNCHANGED <<answer, inflight, variant, caller, hasFile, results, formattedData, uniqueOrderIds,
                   retries, waits, lastError, steps>>

----------------------------------------------------------------------------
(* The route handler *)

\* The request arrives; without a file the handler answers 400 and returns.
UploadFallsThrough ==
    /\ pc = "idle"
    /\ \E f \in BOOLEAN :
          /\ hasFile' = f
          /\ pc' = "parse"
          /\ IF f
             THEN UNCHANGED responses
             ELSE responses' = Append(responses, NoFileResponse)
    /\ UNCHANGED <<answer, inflight, variant, caller, results, formattedData, uniqueOrderIds, retries,
                   attempt, posts, waits, lastError, call, steps, failedStep>>

Upload ==
    /\ pc = "idle"
    /\ \E f \in BOOLEAN :
          /\ hasFile' = f
          /\ IF f
             THEN pc' = "parse" /\ UNCHANGED responses
             ELSE pc' = "done" /\ responses' = Append(responses, NoFileResponse)
    /\ UNCHANGED <<answer, inflight, variant, caller, results, formattedData, uniqueOrderIds, retries,
                   attempt, posts, waits, lastError, call, steps, failedStep>>

\* parseCSVFromBuffer rejects: the catch block answers.
ParseRejects ==
    /\ pc = "parse"
    /\ steps' = steps \cup {"parse"}
    /\ failedStep' = "parse"
    /\ responses' = Append(responses, handleError(ParseError, DefaultStatusCode))
    /\ pc' = "done"
    /\ UNCHANGED <<answer, inflight, variant, caller, hasFile, results, formattedData, uniqueOrderIds,
                   retries, attempt, posts, waits, lastError, call>>

\* parseCSVFromBuffer resolves: the rows are formatted and postToSubmitRoute
\* is called with the default number of retries.
ParseResolves ==
    /\ pc = "parse"
    /\ \E rows \in RowLists :
          LET f == formatCannonHillData(variant, rows)
          IN  /\ results' = rows
              /\ formattedData' = f.formattedData
              /\ uniqueOrderIds' = f.uniqueOrderIds
              /\ Begin(f.formattedData, DefaultRetries)
    /\ retries' = DefaultRetries
    /\ steps' = steps \cup {"parse", "format", "submit"}
    /\ UNCHANGED <<answer, inflight, variant, caller, hasFile, waits, lastError>>

----------------------------------------------------------------------------
(* Specifications *)

Blank ==
    /\ hasFile = FALSE
    /\ uniqueOrderIds = {}
    /\ attempt = 0
    /\ posts = <<>>
    /\ waits = <<>>
    /\ lastError = NoError
    /\ call = NotCalled
    /\ steps = {}
    /\ failedStep = "none"
    /\ responses = <<>>
    /\ answer = NoAnswer
    /\ inflight = <<>>

\* The server is listening; one upload is handled.
Init ==
    /\ variant \in Variants
    /\ caller = "http"
    /\ pc = "idle"
    /\ results = <<>>
    /\ formattedData = <<>>
    /\ retries = 0
    /\ Blank

Next == Upload \/ ParseRejects \/ ParseResolves \/ FetchSettles \/ TimerFires

Spec == Init /\ [][Next]_vars

\* postToSubmitRoute(data, retries) called directly.
InitSubmit ==
    /\ variant \in Variants
    /\ caller = "direct"
    /\ pc = "ready"
    /\ results = <<>>
    /\ formattedData \in DataSamples
    /\ retries \in 0..MaxRetries
    /\ Blank

Call ==
    /\ pc = "ready"
    /\ caller = "direct"
    /\ steps' = steps \cup {"submit"}
    /\ Begin(formattedData, retries)
    /\ UNCHANGED <<answer, inflight, variant, caller, hasFile, results, formattedData, uniqueOrderIds,
                   retries, waits, lastError>>

NextSubmit == Call \/ FetchSettles \/ TimerFires

SpecSubmit == InitSubmit /\ [][NextSubmit]_vars

\* formatCannonHillData(results) called directly on one row.
InitFormat ==
    /\ variant \in Variants
    /\ caller = "format"
    /\ pc = "ready"
    /\ results \in FormatInputs
    /\ formattedData = <<>>
    /\ retries = 0
    /\ Blank

Format ==
    /\ pc = "ready"
    /\ caller = "format"
    /\ LET f == formatCannonHillData(variant, results)
       IN  /\ formattedData' = f.formattedData
           /\ uniqueOrderIds' = f.uniqueOrderIds
    /\ steps' = steps \cup {"format"}
    /\ pc' = "done"
    /\ UNCHANGED <<answer, inflight, variant, caller, hasFile, results, retries, attempt, posts, waits,
                   lastError, call, failedStep, responses>>

NextFormat == Format

SpecFormat == InitFormat /\ [][NextFormat]_vars

----------------------------------------------------------------------------
(* Several uploads in flight: each call of the route handler runs up to *)
(* its next await, then any other request may run.                       *)

NumRequests == 2

Requests == 1..NumRequests

\* Uploads of the requests in flight: two of them hold order number 12.
ConcurrentUploads ==
    {<<>>,
     <<Row(<<"1", "2", "/", "1">>, <<"UPS", " ", "-", " ", "G">>, <<"RTSCS">>, <<"1Z001">>)>>,
     <<Row(<<"1", "2">>, <<"UPS", "-", "3RD">>, <<"RTSCS">>, <<"1Z002">>),
       Row(<<"1", "-", "2">>, <<>>, <<"RTSCS">>, <<"1Z003">>)>>}

\* Answers of the submit route to the requests in flight.
ConcurrentOutcomes ==
    {[kind |-> "transport", status |-> 0, body |-> ""],
     [kind |-> "response", status |-> 404, body |-> "oops"],
     [kind |-> "response", status |-> 200, body |-> "oops"],
     [kind |-> "response", status |-> 200, body |-> ResultsBody]}

\* A request the server has not seen yet.
IdleRequest ==
    [pc |-> "idle", hasFile |-> FALSE, formatted |-> FALSE, results |-> <<>>,
     formattedData |-> <<>>, uniqueOrderIds |-> {}, attempt |-> 0, posts |-> <<>>,
     call |-> NotCalled, responses |-> <<>>]

\* Every order number a call of formatCannonHillData has put into its Set.
ProcessWideOrderIds == UNION {inflight[r].uniqueOrderIds : r \in Requests}

newUniqueOrderIdsShared(processWide) == processWide

\* const uniqueOrderIds = new Set(); inside formatCannonHillData: each call
\* starts from an empty Set, whatever other calls have collected.
newUniqueOrderIds(processWide) == {}

\* formatCannonHillData(rows) called while other requests are in flight.
formatInProcess(v, rows, processWide) ==
    reduceFrom(v, [formattedData |-> <<>>,
                   uniqueOrderIds |-> newUniqueOrderIds(processWide)], rows, 1)

\* postToSubmitRoute of request q has ended with c: 200 or the catch block.
SettleRequest(q, c) ==
    [q EXCEPT !.pc = "done",
              !.call = c,
              !.responses =
                  Append(@, IF c.state = "raised"
                            THEN handleError(c.error, DefaultStatusCode)
                            ELSE OkResponse(c.value))]

\* The fetch of attempt k of request q.
PostRequest(q, k) ==
    [q EXCEPT !.pc = "fetch", !.attempt = k, !.posts = Append(@, q.formattedData)]

\* postToSubmitRoute(formattedData) of request q up to its first await.
BeginRequest(q) ==
    IF variant = 1 /\ q.formattedData = <<>>
    THEN SettleRequest(q, Raised(ValidationError))
    ELSE PostRequest(q, 1)

UnchangedSingle ==
    UNCHANGED <<variant, caller, pc, hasFile, results, formattedData, uniqueOrderIds,
                retries, attempt, posts, waits, lastError, call, steps, failedStep,
                responses, answer>>

RequestArrives(r) ==
    /\ inflight[r].pc = "idle"
    /\ \E f \in BOOLEAN :
          inflight' =
              [inflight EXCEPT ![r] =
                  IF f
                  THEN [@ EXCEPT !.pc = "parse", !.hasFile = TRUE]
                  ELSE [@ EXCEPT !.pc = "done", !.responses = Append(@, NoFileResponse)]]
    /\ UnchangedSingle

RequestParseRejects(r) ==
    /\ inflight[r].pc = "parse"
    /\ inflight' =
          [inflight EXCEPT ![r] =
              [@ EXCEPT !.pc = "done",
                        !.responses = Append(@, handleError(ParseError, DefaultStatusCode))]]
    /\ UnchangedSingle

RequestParseResolves(r) ==
    /\ inflight[r].pc = "parse"
    /\ \E rows \in ConcurrentUploads :
          LET f == formatInProcess(variant, rows, ProcessWideOrderIds)
          IN  inflight' =
                  [inflight EXCEPT ![r] =
                      BeginRequest([@ EXCEPT !.results = rows,
                                             !.formatted = TRUE,
                                             !.formattedData = f.formattedData,
                                             !.uniqueOrderIds = f.uniqueOrderIds])]
    /\ UnchangedSingle

RequestFetchSettles(r) ==
    /\ inflight[r].pc = "fetch"
    /\ \E o \in ConcurrentOutcomes :
          LET q == inflight[r]
              c == attemptOutcome(variant, o)
          IN  inflight' =
                  [inflight EXCEPT ![r] =
                      IF c.state = "returned" THEN SettleRequest(q, c)
                      ELSE IF variant = 3 \/ q.attempt = DefaultRetries
                      THEN SettleRequest(q, c)
                      ELSE [q EXCEPT !.pc = "wait"]]
    /\ UnchangedSingle

RequestTimerFires(r) ==
    /\ inflight[r].pc = "wait"
    /\ inflight' = [inflight EXCEPT ![r] = PostRequest(@, @.attempt + 1)]
    /\ UnchangedSingle

InitConcurrent ==
    /\ variant \in Variants
    /\ caller = "server"
    /\ pc = "idle"
    /\ hasFile = FALSE
    /\ results = <<>>
    /\ formattedData = <<>>
    /\ uniqueOrderIds = {}
    /\ retries = DefaultRetries
    /\ attempt = 0
    /\ posts = <<>>
    /\ waits = <<>>
    /\ lastError = NoError
    /\ call = NotCalled
    /\ steps = {}
    /\ failedStep = "none"
    /\ responses = <<>>
    /\ answer = NoAnswer
    /\ inflight = [r \in Requests |-> IdleRequest]

NextConcurrent ==
    \E r \in Requests :
        \/ RequestArrives(r)
        \/ RequestParseRejects(r)
        \/ RequestParseResolves(r)
        \/ RequestFetchSettles(r)
        \/ RequestTimerFires(r)

SpecConcurrent == InitConcurrent /\ [][NextConcurrent]_vars

----------------------------------------------------------------------------
(* Claims *)

\* Row i of the input yields an order number.
Yields(i) ==
    /\ Truthy(results[i].Cust_PO_Number)
    /\ Truthy(sanitizedValue(variant, results[i].Cust_PO_Number))

OrderOf(i) == sanitizedValue(variant, results[i].Cust_PO_Number)

\* The rows that are the first to yield their order number.
FirstRows ==
    {i \in 1..Len(results) :
        Yields(i) /\ \A j \in 1..(i - 1) : ~(Yields(j) /\ OrderOf(j) = OrderOf(i))}

KthFirstRow(k) ==
    CHOOSE i \in FirstRows : Cardinality({j \in FirstRows : j <= i}) = k

\* C1: formatCannonHillData emits one record per extracted order number, the
\* record of the first row yielding it; later rows with that number emit
\* nothing; the records are in the order of their rows.
C1_FirstRowWinsInOrder ==
    "format" \in steps =>
        /\ Len(formattedData) = Cardinality(FirstRows)
        /\ \A k \in 1..Len(formattedData) :
              formattedData[k]
                  = shipmentRecord(results[KthFirstRow(k)], OrderOf(KthFirstRow(k)))
        /\ uniqueOrderIds = {OrderOf(i) : i \in FirstRows}

C1_Witness ==
    /\ "format" \in steps
    /\ Len(results) = 3
    /\ Yields(1) /\ Yields(2) /\ Yields(3)
    /\ OrderOf(1) # OrderOf(2)
    /\ OrderOf(3) = OrderOf(1)
    /\ Len(formattedData) = 2
    /\ formattedData[1].tracking_number = results[1].Tracking_Number
    /\ formattedData[2].tracking_number = results[2].Tracking_Number

\* C2 (as stated): a call of postToSubmitRoute with an empty record sequence
\* fails with an error and never issues a POST request.  Stated of the call
\* the route handler makes when no row of the upload yields a record.
C2_EmptyFailsWithoutPost ==
    (caller = "http" /\ "submit" \in steps /\ formattedData = <<>>) =>
        /\ posts = <<>>
        /\ call.state = "raised"

\* C3 (as stated, for N >= 1): with a non-empty record sequence and maximum
\* attempt count N, if every attempt fails then exactly N POST requests are
\* issued and the call ends raising the failure of the last attempt.
C3_ExhaustedRaisesAfterN ==
    (/\ pc = "done"
     /\ caller = "direct"
     /\ retries >= 1
     /\ formattedData # <<>>
     /\ ~(call.state = "returned" /\ call.value.defined)) =>
        /\ Len(posts) = retries
        /\ call.state = "raised"
        /\ call.error = lastError

\* C3 for a maximum attempt count of 0: the call still must not end with a
\* value that is no error.
C3_NeverReturnsNonResult ==
    (pc = "done" /\ caller = "direct" /\ formattedData # <<>>) =>
        ~(call.state = "returned" /\ ~call.value.defined)

IsSeparator(c) == c \in {"/", "-", " "}

IsDigit(c) == c \in Digits

\* The segment of po before its first "/".
BeforeSlash(po) ==
    IF \E i \in 1..Len(po) : po[i] = "/"
    THEN SubSeq(po, 1, (CHOOSE i \in 1..Len(po) :
                           po[i] = "/" /\ \A j \in 1..(i - 1) : po[j] # "/") - 1)
    ELSE po

\* The order number as the claim states it: the digits of the first segment.
DigitsOfFirstSegment(po) == Trim(SelectSeq(BeforeSlash(po), IsDigit))

\* po[i..j] is a token between separators that consists of digits only.
NumericTokenAt(po, i, j) ==
    /\ i <= j
    /\ \A k \in i..j : IsDigit(po[k])
    /\ i = 1 \/ IsSeparator(po[i - 1])
    /\ j = Len(po) \/ IsSeparator(po[j + 1])

\* The first all-digit token of po, or the empty string.
FirstNumericToken(po) ==
    LET starts == {i \in 1..Len(po) : \E j \in i..Len(po) : NumericTokenAt(po, i, j)}
    IN  IF starts = {} THEN <<>>
        ELSE LET i == CHOOSE a \in starts : \A b \in starts : a <= b
                 j == CHOOSE b \in i..Len(po) : NumericTokenAt(po, i, b)
             IN  SubSeq(po, i, j)

\* The one row of a direct call of formatCannonHillData has a non-empty
\* Cust_PO_Number and has been processed.
RowProcessed ==
    /\ caller = "format"
    /\ pc = "done"
    /\ Truthy(results[1].Cust_PO_Number)

\* The row was extracted to `order': skipped exactly when order is empty,
\* else emitted with order as the order number of its source_id.
ExtractedAs(order) ==
    /\ uniqueOrderIds = IF order = <<>> THEN {} ELSE {order}
    /\ (formattedData = <<>>) <=> (order = <<>>)
    /\ formattedData # <<>> =>
          LET id == formattedData[1].source_id
              n == Len(id)
          IN  /\ n >= Len(order) + 2
              /\ SubSeq(id, n - Len(order) + 1, n) = order
              /\ id[n - Len(order)] = "-"

\* C4 (as stated): the order number of every row with a non-empty
\* Cust_PO_Number is the digits of the segment before the first "/", and the
\* row is skipped exactly when there are none.
C4_DigitsOfFirstSegment ==
    RowProcessed => ExtractedAs(DigitsOfFirstSegment(results[1].Cust_PO_Number))

\* C4 (amended): that holds in variants 2 and 3; in variant 1 the order
\* number is the first token, between runs of "/", whitespace and "-", that
\* consists of digits only, and the row is skipped when there is none.
C4_ExtractionByVariant ==
    RowProcessed =>
        IF variant = 1
        THEN ExtractedAs(FirstNumericToken(results[1].Cust_PO_Number))
        ELSE ExtractedAs(DigitsOfFirstSegment(results[1].Cust_PO_Number))

C4_Witness ==
    /\ RowProcessed
    /\ variant = 2
    /\ results[1].Cust_PO_Number = <<"1", " ", "2">>
    /\ uniqueOrderIds = {<<"1", "2">>}
    /\ formattedData # <<>>

\* C5: when a step of an upload with a file fails, exactly one response is
\* sent, it has status 500 and the generic envelope, and no 200 is sent.
C5_FailureAnswers500Once ==
    (hasFile /\ (failedStep # "none" \/ call.state = "raised")) =>
        /\ pc = "done"
        /\ Len(responses) = 1
        /\ responses[1].code = 500
        /\ responses[1].shape = "envelope"
        /\ responses[1].message = EnvelopeMessage
        /\ responses[1].error.status = 500

C5_Witness ==
    /\ hasFile
    /\ failedStep = "submit"
    /\ call.state = "raised"
    /\ call.error = Err("Error", JSONstringify(404, "oops"))
    /\ Len(posts) = DefaultRetries
    /\ Len(responses) = 1
    /\ responses[1].code = 500

\* C6 (as stated): when submission fails because the submit route answered
\* status S with body B, the envelope carries both S and B.
C6_EnvelopeCarriesStatusAndBody ==
    (/\ caller = "http"
     /\ pc = "done"
     /\ formattedData # <<>>
     /\ Len(posts) = DefaultRetries
     /\ call.state = "raised"
     /\ JSONparse(call.error.message).ok) =>
        LET remote == JSONparse(call.error.message).value
            sent == responses[Len(responses)].error
        IN  /\ sent.status = remote.status \/ sent.response.status = remote.status
            /\ \/ sent.response = Str(remote.response)
               \/ sent.response = Obj(remote.status, remote.response)

\* The shipment method the claim states for a raw code.
StatedShipmentMethod(code) ==
    IF code \in DOMAIN shipmentMethodMap THEN shipmentMethodMap[code]
    ELSE IF code = <<>> THEN <<"Residential">>
    ELSE code

\* C7 (as stated): carrier_code is the trimmed first "-" segment of
\* Shipped_VIA ("" when it is empty or absent); shipment_method is the
\* trimmed second segment, mapped by the table, passed through when not in
\* the table, "Residential" when empty or missing.
C7_CarrierAndMethod ==
    (caller = "format" /\ pc = "done" /\ formattedData # <<>>) =>
        LET via == results[1].Shipped_VIA
            segments == IF Truthy(via) THEN SplitOn(via, "-") ELSE <<>>
            first == IF Len(segments) >= 1 THEN Trim(segments[1]) ELSE <<>>
            second == IF Len(segments) >= 2 THEN Trim(segments[2]) ELSE <<>>
        IN  /\ formattedData[1].carrier_code = first
            /\ formattedData[1].shipment_method = StatedShipmentMethod(second)

\* The store id the claim states for a customer number.
StatedStoreId(cust) ==
    IF cust \in DOMAIN storeIdMap THEN storeIdMap[cust] ELSE ToStr(cust)

\* C8 (as stated): source_id is "<store_id>-<order_number>", the store id
\* being the table value or else the raw Customer_Number.
C8_SourceId ==
    (caller = "format" /\ pc = "done" /\ formattedData # <<>>) =>
        \E order \in uniqueOrderIds :
            formattedData[1].source_id
                = StatedStoreId(results[1].Customer_Number) \o <<"-">> \o order

\* C8, its last part: the three variants give the same source_id for every row.
C8_VariantsAgree ==
    (caller = "format" /\ pc = "done") =>
        \A v \in Variants :
            LET other == formatCannonHillData(v, results).formattedData
            IN  /\ Len(other) = Len(formattedData)
                /\ \A k \in 1..Len(other) :
                      other[k].source_id = formattedData[k].source_id

\* C9: an upload without a file is answered 400 {message: "No file
\* attached."}, not the envelope, and nothing is parsed, formatted or posted.
C9_NoFileAnswers400 ==
    (caller = "http" /\ pc # "idle" /\ ~hasFile) =>
        /\ pc = "done"
        /\ responses = <<NoFileResponse>>
        /\ responses[1].code = 400
        /\ responses[1].shape = "message"
        /\ responses[1].message = "No file attached."
        /\ steps = {}
        /\ posts = <<>>
        /\ results = <<>>

C9_Witness ==
    /\ caller = "http"
    /\ pc = "done"
    /\ ~hasFile
    /\ Len(responses) = 1

YieldsIn(rows, i) ==
    /\ Truthy(rows[i].Cust_PO_Number)
    /\ Truthy(sanitizedValue(variant, rows[i].Cust_PO_Number))

OrderIn(rows, i) == sanitizedValue(variant, rows[i].Cust_PO_Number)

\* The rows of an upload that are the first of it to yield their order number.
FirstRowsOf(rows) ==
    {i \in 1..Len(rows) :
        YieldsIn(rows, i)
        /\ \A j \in 1..(i - 1) : ~(YieldsIn(rows, j) /\ OrderIn(rows, j) = OrderIn(rows, i))}

\* What an upload gives when it is the only one: the records of its first rows.
AloneOutput(rows) ==
    LET first == FirstRowsOf(rows)
        kth(k) == CHOOSE i \in first : Cardinality({j \in first : j <= i}) = k
    IN  [k \in 1..Cardinality(first) |-> shipmentRecord(rows[kth(k)], OrderIn(rows, kth(k)))]

\* C11: under any interleaving of uploads, each request's records (and every
\* payload it posts) are those it gives when processed alone: an order number
\* seen in one request never drops a row of another request.
C11_RequestsIsolated ==
    \A r \in DOMAIN inflight :
        inflight[r].formatted =>
            /\ inflight[r].formattedData = AloneOutput(inflight[r].results)
            /\ inflight[r].uniqueOrderIds
                   = {OrderIn(inflight[r].results, i) : i \in FirstRowsOf(inflight[r].results)}
            /\ \A k \in 1..Len(inflight[r].posts) :
                  inflight[r].posts[k] = AloneOutput(inflight[r].results)

C11_Witness ==
    \E a, b \in DOMAIN inflight :
        /\ a # b
        /\ inflight[a].pc = "wait"
        /\ inflight[b].pc = "fetch"
        /\ inflight[a].results # inflight[b].results
        /\ inflight[a].uniqueOrderIds \cap inflight[b].uniqueOrderIds # {}
        /\ Len(inflight[a].formattedData) >= 1
        /\ Len(inflight[b].formattedData) >= 1
        /\ inflight[b].posts = <<inflight[b].formattedData>>

\* The {status, message} entry the claim states for one element of results.
StatedEntry(e) ==
    IF e.error # Missing
    THEN [status |-> "error", message |-> e.error]
    ELSE [status |-> IF e.status = Missing THEN "unknown" ELSE e.status,
          message |-> IF e.message = Missing THEN "No message provided" ELSE e.message]

\* postToSubmitRoute has returned a Submission Result for the answer `answer'.
Succeeded ==
    /\ call.state = "returned"
    /\ call.value.defined
    /\ answer.kind = "response"

\* The results array of the answer.
AnsweredResults == JSONparseBody(answer.body).value.results

\* C12 (as stated, for an answer whose results array has elements): the
\* returned results hold one {status, message} entry per element, in order:
\* {status: "error", message: <error>} for an element with an error, else
\* the element's status and message, "unknown" and "No message provided"
\* when missing.
C12_EntryPerElement ==
    (Succeeded /\ AnsweredResults # <<>>) =>
        /\ Len(call.value.results) = Len(AnsweredResults)
        /\ \A i \in 1..Len(AnsweredResults) :
              call.value.results[i] = StatedEntry(AnsweredResults[i])

\* C12 for an answer whose results array is empty or missing: one entry per
\* element means no entry.
C12_NoElementNoEntry ==
    (Succeeded /\ AnsweredResults = <<>>) => call.value.results = <<>>

\* C13 (as stated): within one call of postToSubmitRoute, once an attempt
\* has received a success (2xx) status from the submit route, no further
\* POST request is issued, even if the body of that answer cannot be parsed
\* or simplified.
C13_NoPostAfterSuccessStatus ==
    [][(answer.kind = "response" /\ ResponseOk(answer.status)) => posts' = posts]_vars

====
